---- MODULE Spec2Model ----
(***************************************************************************)
(* Model of wifi-keep-alive.py: argument parsing, the probe (ping) and     *)
(* the probe/print/sleep loop of main(), with the operating system's ping  *)
(* utility and the user's Ctrl+C as the environment.                       *)
(***************************************************************************)
EXTENDS Integers, Sequences, FiniteSets, TLC

VARIABLES
    platform,    \* sys.platform
    argv,        \* command line: [host: 0 or 1 values, interval: 0 or 1 tokens]
    args,        \* argparse namespace [host, interval], NoArgs before parsing
    pc,          \* position of main()
    command,     \* argv list built by the running/last ping() call
    os,          \* what the OS ping utility does for the current probe
    success,     \* local `success` of main(): <<>> while unbound, else <<boolean>>
    out,         \* lines printed to stdout
    err,         \* lines printed to stderr
    events,      \* observable history: probe calls, status prints, sleeps
    results,     \* booleans returned by ping(), in order
    interrupts,  \* number of KeyboardInterrupts delivered
    intAt,       \* pc at which the first interrupt was delivered
    exc,         \* exception that escaped main(), "none" otherwise
    exitCode     \* process exit status, -1 while running

vars == <<platform, argv, args, pc, command, os, success, out, err, events,
          results, interrupts, intAt, exc, exitCode>>

----------------------------------------------------------------------------
(* Bounds *)

\* number of probes one run of the model issues
MaxProbes == 3

(* Program constants *)

\* default of ping()'s count parameter
DefaultCount == 4
\* default of --interval
DefaultInterval == 60

Platforms == {"win32", "linux", "darwin"}
Hosts == {"203.0.113.5", "google.com"}
\* values given to -i/--interval, as the characters typed
IntervalTokens == { <<"0">>, <<"-", "5">>, <<"1">>, <<"3", "0">>, <<"x">> }

----------------------------------------------------------------------------
(* int() and str() on decimal numerals *)

Digits == <<"0", "1", "2", "3", "4", "5", "6", "7", "8", "9">>

IsDigit(c) == \E d \in 1..10 : Digits[d] = c

DigitVal(c) == (CHOOSE d \in 1..10 : Digits[d] = c) - 1

RECURSIVE DigitsVal(_)
DigitsVal(s) ==
    IF s = <<>> THEN 0
    ELSE 10 * DigitsVal(SubSeq(s, 1, Len(s) - 1)) + DigitVal(s[Len(s)])

AllDigits(s) == s # <<>> /\ \A i \in 1..Len(s) : IsDigit(s[i])

\* int(token): [ok |-> FALSE] stands for ValueError
ParseInt(s) ==
    IF s # <<>> /\ s[1] \in {"-", "+"}
    THEN IF AllDigits(Tail(s))
         THEN [ok |-> TRUE,
               val |-> IF s[1] = "-" THEN 0 - DigitsVal(Tail(s)) ELSE DigitsVal(Tail(s))]
         ELSE [ok |-> FALSE, val |-> 0]
    ELSE IF AllDigits(s)
         THEN [ok |-> TRUE, val |-> DigitsVal(s)]
         ELSE [ok |-> FALSE, val |-> 0]

RECURSIVE StrNat(_)
StrNat(n) ==
    IF n < 10 THEN <<Digits[n + 1]>>
    ELSE StrNat(n \div 10) \o <<Digits[(n % 10) + 1]>>

\* str(n)
Str(n) == IF n < 0 THEN <<"-">> \o StrNat(0 - n) ELSE StrNat(n)

----------------------------------------------------------------------------
(* Output lines, as the pieces the f-strings join *)

BannerLine(host, interval) ==
    <<"Starting keep-alive pings to ", host, " every ">> \o Str(interval) \o <<" seconds...">>

HintLine == <<"Press Ctrl+C to stop.">>

\* variant: the status text ignores the probe result
StatusText_AlwaysOK(ok) == "OK"

StatusText(ok) == IF ok THEN "OK" ELSE "FAILED"

StatusLine(host, status) == <<"Ping to ", host, ": ", status>>

StoppedLine == <<"\nStopped.">>

UsageError == <<"usage error">>

IsStatusLine(l) == l[1] = "Ping to "

StatusLines(o) == SelectSeq(o, IsStatusLine)

----------------------------------------------------------------------------
(* ping() *)

CountFlag(plat) == IF plat = "win32" THEN "-n" ELSE "-c"

\* command = ["ping", param, str(count), host]; every word is a sequence of pieces
PingCommand(plat, host, count) == << <<"ping">>, <<CountFlag(plat)>>, Str(count), <<host>> >>

\* what the OS ping utility can do once started by subprocess.run
OSOutcomes ==
    { [kind |-> "exited", code |-> c] : c \in {0, 1, 2} }
    \cup { [kind |-> "oserror", code |-> 0], [kind |-> "hang", code |-> 0] }

NoOS == [kind |-> "idle", code |-> 0]

----------------------------------------------------------------------------
NoArgs == [host |-> "", interval |-> 0]

Ev(e, st, s) == [ev |-> e, status |-> st, secs |-> s]

ProbesIssued == Len(SelectSeq(events, LAMBDA e : e.ev = "probe"))

Init ==
    /\ platform \in Platforms
    /\ argv \in [host : {<<>>} \cup { <<h>> : h \in Hosts },
                 interval : {<<>>} \cup { <<t>> : t \in IntervalTokens }]
    /\ args = NoArgs
    /\ pc = "parse"
    /\ command = <<>>
    /\ os = NoOS
    /\ success = <<>>
    /\ out = <<>>
    /\ err = <<>>
    /\ events = <<>>
    /\ results = <<>>
    /\ interrupts = 0
    /\ intAt = "none"
    /\ exc = "none"
    /\ exitCode = -1

----------------------------------------------------------------------------
(* main() *)

\* positions of main() inside the try block
LoopPhases == {"loop", "probing", "status", "tosleep", "sleeping"}

\* args = parser.parse_args()
ParseArgs ==
    /\ pc = "parse"
    /\ IF argv.host = <<>> \/ (argv.interval # <<>> /\ ~ParseInt(argv.interval[1]).ok)
       THEN /\ err' = Append(err, UsageError)
            /\ pc' = "usage_exit"
            /\ exitCode' = 2
            /\ args' = args
       ELSE /\ args' = [host |-> argv.host[1],
                        interval |-> IF argv.interval = <<>> THEN DefaultInterval
                                     ELSE ParseInt(argv.interval[1]).val]
            /\ pc' = "banner"
            /\ UNCHANGED <<err, exitCode>>
    /\ UNCHANGED <<platform, argv, command, os, success, out, events, results,
                   interrupts, intAt, exc>>

\* the two startup prints
Banner ==
    /\ pc = "banner"
    /\ out' = out \o <<BannerLine(args.host, args.interval), HintLine>>
    /\ pc' = "loop"
    /\ UNCHANGED <<platform, argv, args, command, os, success, err, events, results,
                   interrupts, intAt, exc, exitCode>>

\* success = ping(args.host): the command is built and subprocess.run starts it
CallPing ==
    /\ pc = "loop"
    /\ ProbesIssued < MaxProbes
    /\ command' = PingCommand(platform, args.host, DefaultCount)
    /\ \E o \in OSOutcomes : os' = o
    /\ events' = Append(events, Ev("probe", "", 0))
    /\ pc' = "probing"
    /\ UNCHANGED <<platform, argv, args, success, out, err, results,
                   interrupts, intAt, exc, exitCode>>

\* check=True: a non-zero return code raises CalledProcessError, caught as False
PingResult(o) == o.code = 0

\* subprocess.run returned or raised CalledProcessError; ping() returns a boolean
PingReturn ==
    /\ pc = "probing"
    /\ os.kind = "exited"
    /\ success' = <<PingResult(os)>>
    /\ results' = Append(results, PingResult(os))
    /\ pc' = "status"
    /\ UNCHANGED <<platform, argv, args, command, os, out, err, events,
                   interrupts, intAt, exc, exitCode>>

\* subprocess.run could not start the utility: OSError is caught nowhere
PingRaise ==
    /\ pc = "probing"
    /\ os.kind = "oserror"
    /\ exc' = "OSError"
    /\ pc' = "crashed"
    /\ exitCode' = 1
    /\ UNCHANGED <<platform, argv, args, command, os, success, out, err, events,
                   results, interrupts, intAt>>

\* variant: the status line is printed a second time
PrintStatus_Twice ==
    /\ pc = "status"
    /\ out' = out \o <<StatusLine(args.host, StatusText(success[1])),
                        StatusLine(args.host, StatusText(success[1]))>>
    /\ events' = Append(events, Ev("line", StatusText(success[1]), 0))
    /\ pc' = "tosleep"
    /\ UNCHANGED <<platform, argv, args, command, os, success, err, results,
                   interrupts, intAt, exc, exitCode>>

\* status = "OK" if success else "FAILED"; print(...)
PrintStatus ==
    /\ pc = "status"
    /\ out' = Append(out, StatusLine(args.host, StatusText(success[1])))
    /\ events' = Append(events, Ev("line", StatusText(success[1]), 0))
    /\ pc' = "tosleep"
    /\ UNCHANGED <<platform, argv, args, command, os, success, err, results,
                   interrupts, intAt, exc, exitCode>>

\* variant: the wait is doubled after a failed probe
CallSleep_Backoff ==
    /\ pc = "tosleep"
    /\ IF args.interval < 0
       THEN /\ exc' = "ValueError"
            /\ pc' = "crashed"
            /\ exitCode' = 1
            /\ events' = events
       ELSE /\ events' = Append(events,
                   Ev("sleep", "", IF success[1] THEN args.interval ELSE 2 * args.interval))
            /\ pc' = "sleeping"
            /\ UNCHANGED <<exc, exitCode>>
    /\ UNCHANGED <<platform, argv, args, command, os, success, out, err, results,
                   interrupts, intAt>>

\* time.sleep(args.interval) is entered; a negative length raises ValueError
CallSleep ==
    /\ pc = "tosleep"
    /\ IF args.interval < 0
       THEN /\ exc' = "ValueError"
            /\ pc' = "crashed"
            /\ exitCode' = 1
            /\ events' = events
       ELSE /\ events' = Append(events, Ev("sleep", "", args.interval))
            /\ pc' = "sleeping"
            /\ UNCHANGED <<exc, exitCode>>
    /\ UNCHANGED <<platform, argv, args, command, os, success, out, err, results,
                   interrupts, intAt>>

\* time.sleep returns, back to the loop head
Wake ==
    /\ pc = "sleeping"
    /\ pc' = "loop"
    /\ UNCHANGED <<platform, argv, args, command, os, success, out, err, events,
                   results, interrupts, intAt, exc, exitCode>>

\* variant: the sleep is outside the try block
InterruptTarget_SleepOutsideTry(p) ==
    IF p \in LoopPhases \ {"sleeping"} THEN "handler" ELSE "crashed"

\* where a KeyboardInterrupt raised at position p takes control
InterruptTarget(p) == IF p \in LoopPhases THEN "handler" ELSE "crashed"

\* Ctrl+C: KeyboardInterrupt is raised at the current position
Interrupt ==
    /\ pc \in {"parse", "banner", "handler"} \cup LoopPhases
    /\ interrupts' = interrupts + 1
    /\ intAt' = IF interrupts = 0 THEN pc ELSE intAt
    /\ pc' = InterruptTarget(pc)
    /\ IF InterruptTarget(pc) = "crashed"
       THEN /\ exc' = "KeyboardInterrupt"
            /\ \E c \in {1, 130} : exitCode' = c
       ELSE UNCHANGED <<exc, exitCode>>
    /\ UNCHANGED <<platform, argv, args, command, os, success, out, err, events,
                   results>>

\* variant: the handler returns without the message
Handler_Silent ==
    /\ pc = "handler"
    /\ pc' = "stopped"
    /\ exitCode' = 0
    /\ UNCHANGED <<platform, argv, args, command, os, success, out, err, events,
                   results, interrupts, intAt, exc>>

\* except KeyboardInterrupt: print("\nStopped."), then main() returns
Handler ==
    /\ pc = "handler"
    /\ out' = Append(out, StoppedLine)
    /\ pc' = "stopped"
    /\ exitCode' = 0
    /\ UNCHANGED <<platform, argv, args, command, os, success, err, events, results,
                   interrupts, intAt, exc>>

Program ==
    \/ ParseArgs
    \/ Banner
    \/ CallPing
    \/ PingReturn
    \/ PingRaise
    \/ PrintStatus
    \/ CallSleep
    \/ Wake
    \/ Handler

Next == Program \/ Interrupt

Spec == Init /\ [][Next]_vars

\* the interpreter keeps running the program; Ctrl+C is up to the user
LiveSpec == Init /\ [][Next]_vars /\ WF_vars(Program)

TypeOK ==
    /\ platform \in Platforms
    /\ pc \in {"parse", "banner", "handler", "stopped", "crashed", "usage_exit"} \cup LoopPhases
    /\ Len(results) <= MaxProbes
    /\ interrupts \in 0..2
    /\ exitCode \in {-1, 0, 1, 2, 130}

----------------------------------------------------------------------------
(* Properties *)

Contains(l, piece) == \E i \in 1..Len(l) : l[i] = piece

SleepsBegun == Len(SelectSeq(events, LAMBDA e : e.ev = "sleep"))

StoppedCount(o) == Len(SelectSeq(o, LAMBDA l : l = StoppedLine))

Running == pc \notin {"stopped", "crashed", "usage_exit"}

\* C1: for a non-positive interval main() ends with a non-zero exit status
\* and ping is never invoked before that exit.
C1_NonPositiveIntervalRejected ==
    (pc # "parse" /\ pc # "usage_exit" /\ args.interval <= 0)
        => /\ ProbesIssued = 0
           /\ exitCode # 0
           /\ (~Running => exitCode > 0)

\* C2: an interrupt delivered during the sleep ends the loop; "Stopped." is
\* the final output, main() returns with exit code 0 and no probe is issued
\* after the interrupt.
C2_InterruptDuringSleep ==
    /\ [][(intAt' = "sleeping" /\ interrupts' = 1)
            => /\ pc' \in {"handler", "stopped"}
               /\ (pc' = "stopped" => /\ exitCode' = 0
                                      /\ out'[Len(out')] = StoppedLine)
               /\ (intAt = "sleeping" => ProbesIssued' = ProbesIssued)]_vars
    /\ ((intAt = "sleeping" /\ interrupts = 1) ~> (pc = "stopped" \/ interrupts > 1))

C2_Witness ==
    /\ intAt = "sleeping"
    /\ interrupts = 1
    /\ pc = "stopped"
    /\ exitCode = 0
    /\ ProbesIssued >= 2

\* C3: for an interval >= 1, while the loop runs the number of status lines
\* equals the number of completed probes, or is one less exactly between a
\* probe's return and its print; the line of an iteration is printed before
\* the sleep of that iteration begins.
C3_OneLinePerProbe ==
    (pc \in LoopPhases /\ args.interval >= 1)
        => LET n == Len(StatusLines(out))
               m == Len(results)
           IN  /\ (pc = "status" => n = m - 1 /\ SleepsBegun = n)
               /\ (pc = "tosleep" => n = m /\ SleepsBegun = n - 1)
               /\ (pc \in {"sleeping", "loop", "probing"} => n = m /\ SleepsBegun = n)

C3_Witness ==
    /\ pc = "sleeping"
    /\ args.interval >= 1
    /\ Len(results) = 2
    /\ Len(StatusLines(out)) = 2

C5_PingNeverRaises ==
    /\ exc # "OSError"
    /\ (pc = "status" => success = <<os.kind = "exited" /\ os.code = 0>>)

\* C6: status lines come in the order of the probe results, consecutive
\* probes are separated by exactly one sleep of the configured interval, and
\* the schedule after FAILED is the one after OK.
C6_OrderAndSchedule ==
    LET lines == StatusLines(out)
        step == <<"probe", "line", "sleep">>
    IN  /\ \A k \in 1..Len(lines) :
              k <= Len(results) /\ lines[k][4] = (IF results[k] THEN "OK" ELSE "FAILED")
        /\ \A i \in 1..Len(events) :
              /\ events[i].ev = step[((i - 1) % 3) + 1]
              /\ (events[i].ev = "sleep" => events[i].secs = args.interval)
              /\ (events[i].ev = "line" => events[i].status = lines[((i - 2) \div 3) + 1][4])

C6_Witness ==
    /\ args = [host |-> "203.0.113.5", interval |-> 30]
    /\ results = <<FALSE, TRUE, FALSE>>
    /\ Len(StatusLines(out)) = 3
    /\ SleepsBegun = 3

\* C7: once the loop is entered, only an interrupt ends it: with no interrupt
\* delivered the program never reaches a stopped or error state.
C7_OnlyInterruptEndsLoop ==
    pc \in {"stopped", "crashed"} => interrupts > 0

\* C8: every probe that is started returns a boolean to the loop driver,
\* also when the OS check never finishes on its own (an interrupt aside; the
\* check that cannot be started is C5's case).
C8_ProbeEventuallyReturns ==
    (pc = "probing" /\ os.kind # "oserror") ~> (pc = "status" \/ interrupts > 0)

\* flag and unit of the timeout value the probe command is to carry
TimeoutFlag(plat) == IF plat = "win32" THEN "-w" ELSE "-W"

\* C9: the probe command carries -n (Windows) or -c (Unix) followed by the
\* packet count, a timeout value (milliseconds on Windows, seconds on Unix),
\* and the host unchanged.
C9_PlatformCommand ==
    command # <<>>
        => /\ \E i \in 1..(Len(command) - 1) :
                /\ command[i] = <<IF platform = "win32" THEN "-n" ELSE "-c">>
                /\ command[i + 1] = <<"4">>
           /\ \E i \in 1..(Len(command) - 1) :
                /\ command[i] = <<TimeoutFlag(platform)>>
                /\ AllDigits(command[i + 1])
           /\ command[Len(command)] = <<args.host>>

\* C10: an interrupt delivered anywhere in the loop is caught: "Stopped." is
\* printed exactly once and last, no probe and no other line follows the
\* interrupt, main() returns normally, and a probe that was interrupted gets
\* no status line.
C10_InterruptAnywhereInLoop ==
    /\ [][(intAt' \in LoopPhases /\ interrupts' = 1)
            => /\ pc' \in {"handler", "stopped"}
               /\ (pc' = "handler" => StoppedCount(out') = 0)
               /\ (pc' = "stopped" => /\ exitCode' = 0
                                      /\ exc' = "none"
                                      /\ StoppedCount(out') = 1
                                      /\ out'[Len(out')] = StoppedLine)
               /\ (intAt \in LoopPhases
                     => /\ ProbesIssued' = ProbesIssued
                        /\ StatusLines(out') = StatusLines(out)
                        /\ (out' # out => out' = Append(out, StoppedLine)))
               /\ (intAt' = "probing"
                     => Len(StatusLines(out')) = ProbesIssued' - 1)]_vars
    /\ ((intAt \in LoopPhases /\ interrupts = 1) ~> (pc = "stopped" \/ interrupts > 1))

C10_Witness ==
    /\ intAt = "probing"
    /\ interrupts = 1
    /\ pc = "stopped"
    /\ ProbesIssued = 2
    /\ Len(StatusLines(out)) = 1
    /\ StoppedCount(out) = 1

====
